---- MODULE Spec2Model ----
(***************************************************************************)
(* python_cypher: CypherParserBaseClass / CypherToNetworkx.                *)
(* A model of query execution (MATCH ... WHERE ... RETURN and CREATE ...   *)
(* RETURN) against a NetworkX MultiDiGraph, and of extract_atomic_facts.   *)
(***************************************************************************)
EXTENDS Integers, Sequences, FiniteSets, TLC

VARIABLES
    graph_object,        \* the MultiDiGraph: [nodes, node, edge]
    node_has_counter,    \* whether cypher_parser.Node objects carry a numeric
                         \* attribute next_anonymous_variable
    pc,                  \* "idle", "matching", "creating", "done", "raised"
    query_ast,           \* the AST as self.parse returned it
    parsed_query,        \* the same object as mutated by the execution
    atomic_facts,        \* extract_atomic_facts' list
    all_designations,    \* sorted designations (matching_nodes)
    domain,              \* self._get_domain(graph_object)
    candidate,           \* number of domain assignments evaluated so far
    var_to_element,      \* the assignment evaluated last
    sentinal,            \* its sentinal flag
    rows,                \* the rows the generator query() yielded so far
    raised,              \* the exception that ended the execution, or None
    designation_to_node, \* create_query's mapping
    calls,               \* backend _create_node / _create_edge calls so far
    creates,             \* CREATE queries executed so far
    next_uid             \* number of unique_id() values handed out so far

vars == <<graph_object, node_has_counter, pc, query_ast, parsed_query,
          atomic_facts, all_designations, domain, candidate, var_to_element,
          sentinal, rows, raised, designation_to_node, calls, creates, next_uid>>

----------------------------------------------------------------------------
(* Bounds of the model *)
MaxNodes == 4       \* nodes a graph may hold
MaxCreates == 1     \* CREATE queries per behaviour

----------------------------------------------------------------------------
(* Python values.  A name that may be None (designation, class, label) is a *)
(* string, None being a string no name of the model equals.  An attribute   *)
(* value is a record [t, s, d]: None, a str s, or a dict given by its       *)
(* leaves d: key-path |-> leaf (a str or None).                             *)
None == "None"
NoLeaves == [p \in {} |-> None]
NoneV == [t |-> "none", s |-> None, d |-> NoLeaves]
Str(x) == [t |-> "str", s |-> x, d |-> NoLeaves]
Dict(leaves) == [t |-> "dict", s |-> None, d |-> leaves]
ToValue(x) == IF x = None THEN NoneV ELSE Str(x)

\* key in value, for a dict
HasKey(v, key) == \E p \in DOMAIN v.d : p[1] = key

\* value[key], for a dict holding key
GetItem(v, key) ==
    IF <<key>> \in DOMAIN v.d
    THEN ToValue(v.d[<<key>>])
    ELSE Dict([p \in {Tail(q) : q \in {r \in DOMAIN v.d : r[1] = key}}
                 |-> v.d[<<key>> \o p]])

\* value[key] = x, for a dict and a leaf x
SetItem(v, key, x) ==
    Dict([p \in {q \in DOMAIN v.d : q[1] # key} \cup {<<key>>}
            |-> IF p = <<key>> THEN x ELSE v.d[p]])

----------------------------------------------------------------------------
(* CypherToNetworkx: the backend hooks *)

_get_domain(obj) == obj.nodes

_get_node(obj, node_name) == obj.node[node_name]

\* out = out.get(attribute) for each attribute; a value without .get raises
RECURSIVE NodeAttributeLoop(_, _)
NodeAttributeLoop(out, attribute_list) ==
    IF attribute_list = <<>> THEN [raised |-> None, value |-> out]
    ELSE IF out.t # "dict" THEN [raised |-> "Exception", value |-> NoneV]
    ELSE NodeAttributeLoop(
             IF HasKey(out, Head(attribute_list))
             THEN GetItem(out, Head(attribute_list)) ELSE NoneV,
             Tail(attribute_list))

_node_attribute_value(node, attribute_list) ==
    NodeAttributeLoop(node, attribute_list)

\* value = value[key] for each key; KeyError and TypeError return None
RECURSIVE KeypathLoop(_, _)
KeypathLoop(value, keypath) ==
    IF keypath = <<>> THEN value
    ELSE IF value.t # "dict" THEN NoneV                    \* TypeError
    ELSE IF ~HasKey(value, Head(keypath)) THEN NoneV       \* KeyError
    ELSE KeypathLoop(GetItem(value, Head(keypath)), Tail(keypath))

\* the loop, were a failed lookup to leave the loop with the value reached
RECURSIVE KeypathLoopBreak(_, _)
KeypathLoopBreak(value, keypath) ==
    IF keypath = <<>> THEN value
    ELSE IF value.t # "dict" THEN value
    ELSE IF ~HasKey(value, Head(keypath)) THEN value
    ELSE KeypathLoopBreak(GetItem(value, Head(keypath)), Tail(keypath))

attribute_value_break(node, keypath) == KeypathLoopBreak(node, keypath)

_attribute_value_from_node_keypath(node, keypath) == KeypathLoop(node, keypath)

\* graph_object.edge[source][target].iteritems(); nothing when absent
_edges_connecting_nodes(obj, source, target) ==
    {e \in obj.edge : e.source = source /\ e.target = target}

_node_class(node) == IF HasKey(node, "class") THEN GetItem(node, "class") ELSE NoneV

_edge_class(edge) ==
    IF edge.t # "dict" THEN NoneV                          \* AttributeError
    ELSE IF HasKey(edge, "class") THEN GetItem(edge, "class") ELSE NoneV

unique_id(n) == "_id_" \o ToString(n)

----------------------------------------------------------------------------
(* The AST classes of cypher_parser, as the code uses them *)

NoneAst == [type |-> "NoneType"]
Node(designation, node_class, attribute_conditions, connecting_edges) ==
    [type |-> "Node", designation |-> designation, node_class |-> node_class,
     attribute_conditions |-> attribute_conditions,
     connecting_edges |-> connecting_edges]
EdgeExists(node_1, node_2, edge_label) ==
    [type |-> "EdgeExists", node_1 |-> node_1, node_2 |-> node_2,
     edge_label |-> edge_label]
ClassIs(designation, class_name) ==
    [type |-> "ClassIs", designation |-> designation, class_name |-> class_name]
NodeHasDocument(designation, document) ==
    [type |-> "NodeHasDocument", designation |-> designation,
     document |-> document]
Constraint(keypath, value) ==
    [type |-> "Constraint", keypath |-> keypath, value |-> value]
Or(left_disjunct, right_disjunct) ==
    [type |-> "Or", left_disjunct |-> left_disjunct,
     right_disjunct |-> right_disjunct]
Not(argument) == [type |-> "Not", argument |-> argument]
WhereClause(constraint) == [type |-> "WhereClause", constraint |-> constraint]
Literals(literal_list) == [type |-> "Literals", literal_list |-> literal_list]
MatchQuery(literals, where_clause) ==
    [type |-> "MatchQuery", literals |-> literals, where_clause |-> where_clause]
CreateClause(literals) == [type |-> "CreateClause", literals |-> literals]
\* an item of return_variables.variable_list: a str, or a list (the key-path)
ReturnStr(designation) == [is_str |-> TRUE, path |-> <<designation>>]
ReturnPath(keypath) == [is_str |-> FALSE, path |-> keypath]
MatchWhereReturnQuery(literal_list, where_clause, variable_list) ==
    [type |-> "MatchWhereReturnQuery",
     match_clause |-> MatchQuery(Literals(literal_list), NoneAst),
     where_clause |-> where_clause,
     return_variables |-> [variable_list |-> variable_list]]
CreateReturnQuery(literal_list, variable_list) ==
    [type |-> "CreateReturnQuery",
     create_clause |-> CreateClause(Literals(literal_list)),
     return_variables |-> [variable_list |-> variable_list]]

literal_list_of(query) ==
    IF query.type = "CreateReturnQuery"
    THEN query.create_clause.literals.literal_list
    ELSE query.match_clause.literals.literal_list

\* the query object with its pattern nodes replaced (in-place mutation)
WithLiterals(query, literal_list) ==
    IF query.type = "CreateReturnQuery"
    THEN [query EXCEPT !.create_clause.literals.literal_list = literal_list]
    ELSE [query EXCEPT !.match_clause.literals.literal_list = literal_list]

----------------------------------------------------------------------------
(* extract_atomic_facts *)

\* the Node branch of _recurse; st is _recurse's state: atomic_facts,
\* next_anonymous_variable, the pattern nodes visited (as mutated), raised
RecurseNode(st, subquery, has_counter) ==
    LET anonymous == subquery.designation = None
        designation ==
            IF anonymous THEN "_v" \o ToString(st.next_anonymous_variable)
            ELSE subquery.designation
        named == [subquery EXCEPT !.designation = designation]
        document ==
            IF Cardinality(DOMAIN subquery.attribute_conditions.d) > 0
            THEN subquery.attribute_conditions ELSE NoneV
    IN  IF st.raised # None THEN st
        ELSE IF anonymous /\ ~has_counter
        THEN \* subquery.next_anonymous_variable += 1 on an object without it
             [st EXCEPT !.raised = "AttributeError",
                        !.literal_list = Append(@, named)]
        ELSE \* _recurse.next_anonymous_variable is left as it is
             [st EXCEPT !.literal_list = Append(@, named),
                        !.atomic_facts =
                            Append(@, ClassIs(designation, subquery.node_class))
                            \o subquery.connecting_edges
                            \o <<NodeHasDocument(designation, document)>>]

\* the Literals branch: for literal in subquery.literal_list: _recurse(literal)
RECURSIVE RecurseLiterals(_, _, _)
RecurseLiterals(st, literal_list, has_counter) ==
    IF literal_list = <<>> THEN st
    ELSE RecurseLiterals(RecurseNode(st, Head(literal_list), has_counter),
                         Tail(literal_list), has_counter)

\* the WhereClause and None branches
RecurseWhere(st, subquery) ==
    IF st.raised # None \/ subquery.type = "NoneType" THEN st
    ELSE IF subquery.type = "WhereClause"
    THEN [st EXCEPT !.atomic_facts = Append(@, subquery)]
    ELSE [st EXCEPT !.raised = "Exception"]

\* returns _recurse's final state
extract_atomic_facts(query, has_counter) ==
    LET st0 == [atomic_facts |-> <<>>, next_anonymous_variable |-> 0,
                literal_list |-> <<>>, raised |-> None]
    IN  IF query.type = "MatchWhereReturnQuery"
        THEN RecurseWhere(
                 RecurseWhere(
                     RecurseLiterals(st0, query.match_clause.literals.literal_list,
                                     has_counter),
                     query.match_clause.where_clause),
                 query.where_clause)
        ELSE IF query.type = "CreateReturnQuery"
        THEN RecurseLiterals(st0, query.create_clause.literals.literal_list,
                             has_counter)
        ELSE [st0 EXCEPT !.raised = "Exception"]

----------------------------------------------------------------------------
(* matching_nodes *)

\* Python's order of the str values that occur as designations
StringOrder == <<"_v0", "_v1", "_v2", "m", "n", "x", "y", "z">>

\* lines 94-100: sorted(list(all_designations))
SortedDesignations(facts) ==
    LET named == {facts[i].designation : i \in
                    {j \in DOMAIN facts :
                        /\ facts[j].type \in {"ClassIs", "NodeHasDocument"}
                        /\ facts[j].designation # None}}
    IN  SelectSeq(StringOrder, LAMBDA name : name \in named)

RECURSIVE Pow(_, _)
Pow(b, e) == IF e = 0 THEN 1 ELSE b * Pow(b, e - 1)

\* the k-th (from 0) tuple of itertools.product(*[domain] * n), as the
\* dict var_to_element of lines 105-106
Assignment(designations, dom, k) ==
    LET n == Len(designations)
        pick(p) == dom[((k \div Pow(Len(dom), n - p)) % Len(dom)) + 1]
    IN  [name \in {designations[p] : p \in 1..n} |->
            pick(CHOOSE p \in 1..n : designations[p] = name)]

\* _eval_constraint: "True", "False", or the exception raised
_eval_constraint(obj, v2e, constraint) ==
    IF constraint.keypath = <<>> THEN "IndexError"
    ELSE IF Head(constraint.keypath) \notin DOMAIN v2e THEN "KeyError"
    ELSE IF _attribute_value_from_node_keypath(
                _get_node(obj, v2e[Head(constraint.keypath)]),
                Tail(constraint.keypath)) = Str(constraint.value)
         THEN "True" ELSE "False"

RECURSIVE _eval_boolean(_, _, _)
_eval_boolean(obj, v2e, clause) ==
    IF clause.type = "Or"
    THEN LET left == _eval_boolean(obj, v2e, clause.left_disjunct)
         IN  IF left = "False"
             THEN _eval_boolean(obj, v2e, clause.right_disjunct)
             ELSE left
    ELSE IF clause.type = "Not"
    THEN LET argument == _eval_boolean(obj, v2e, clause.argument)
         IN  IF argument = "True" THEN "False"
             ELSE IF argument = "False" THEN "True"
             ELSE argument
    ELSE _eval_constraint(obj, v2e, clause)

\* lines 113-121, for bound designations
ClassIsHolds(obj, v2e, fact) ==
    ~ (/\ fact.class_name # None
       /\ _node_class(_get_node(obj, v2e[fact.designation])) # Str(fact.class_name))

\* lines 123-129: any(self._edge_class(edge) == atomic_fact.edge_label ...)
EdgeExistsHolds(obj, v2e, fact) ==
    \E connecting_edge \in
          _edges_connecting_nodes(obj, v2e[fact.node_1], v2e[fact.node_2]) :
       _edge_class(connecting_edge.data) = ToValue(fact.edge_label)

\* lines 111-133: the loop over atomic_facts; st = [sentinal, raised]
CheckFact(obj, v2e, st, fact) ==
    IF st.raised # None THEN st
    ELSE IF fact.type = "ClassIs"
    THEN IF fact.designation \notin DOMAIN v2e
         THEN [st EXCEPT !.raised = "KeyError"]
         ELSE [st EXCEPT !.sentinal = @ /\ ClassIsHolds(obj, v2e, fact)]
    ELSE IF fact.type = "EdgeExists"
    THEN IF fact.node_1 \notin DOMAIN v2e \/ fact.node_2 \notin DOMAIN v2e
         THEN [st EXCEPT !.raised = "KeyError"]
         ELSE [st EXCEPT !.sentinal = @ /\ EdgeExistsHolds(obj, v2e, fact)]
    ELSE IF fact.type = "WhereClause"
    THEN LET value == _eval_boolean(obj, v2e, fact.constraint)
         IN  IF value \in {"True", "False"}
             THEN [st EXCEPT !.sentinal = @ /\ (value = "True")]
             ELSE [st EXCEPT !.raised = value]
    ELSE st        \* NodeHasDocument: no branch of the loop handles it

RECURSIVE CheckFacts(_, _, _, _)
CheckFacts(obj, v2e, st, facts) ==
    IF facts = <<>> THEN st
    ELSE CheckFacts(obj, v2e, CheckFact(obj, v2e, st, Head(facts)), Tail(facts))

\* lines 138-148: the loop over variables_to_return;
\* st = [return_list, variable_list (as mutated by pop), raised]
RECURSIVE ReturnLoop(_, _, _, _)
ReturnLoop(obj, v2e, st, i) ==
    IF i > Len(st.variable_list) THEN st
    ELSE LET return_path == st.variable_list[i] IN
         IF return_path.is_str
         THEN IF return_path.path[1] \notin DOMAIN v2e
              THEN [st EXCEPT !.raised = "KeyError"]
              ELSE \* append, then break
                   [st EXCEPT !.return_list =
                                  Append(@, Str(v2e[return_path.path[1]]))]
         ELSE IF return_path.path = <<>>
         THEN [st EXCEPT !.raised = "IndexError"]
         ELSE LET popped == [st EXCEPT !.variable_list[i].path = Tail(@)]
                  name == Head(return_path.path)
              IN  IF name \notin DOMAIN v2e
                  THEN [popped EXCEPT !.raised = "KeyError"]
                  ELSE LET got == _node_attribute_value(
                                      _get_node(obj, v2e[name]),
                                      Tail(return_path.path))
                       IN  IF got.raised # None
                           THEN [popped EXCEPT !.raised = got.raised]
                           ELSE ReturnLoop(obj, v2e,
                                    [popped EXCEPT !.return_list =
                                                       Append(@, got.value)],
                                    i + 1)

----------------------------------------------------------------------------
(* Inputs: graphs handed to query(), and parsed queries *)

Leaf(path, x) == path :> x
Edge(source, target, key, data) ==
    [source |-> source, target |-> target, key |-> key, data |-> data]

EmptyGraph == [nodes |-> <<>>, node |-> [n \in {} |-> NoneV], edge |-> {}]

Ann == Dict(Leaf(<<"class">>, "Person") @@ Leaf(<<"name">>, "Ann")
            @@ Leaf(<<"bar", "qux">>, "baz"))
Bo == Dict(Leaf(<<"class">>, "Person") @@ Leaf(<<"name">>, "Bo"))

\* a -> b, an edge of class KNOWS
KnowsGraph(order) ==
    [nodes |-> order, node |-> ("a" :> Ann) @@ ("b" :> Bo),
     edge |-> {Edge("a", "b", 0, Dict(Leaf(<<"class">>, "KNOWS")))}]

\* a -> b, an edge without attributes, and b -> a of class LIKES
PlainGraph(order) ==
    [nodes |-> order, node |-> ("a" :> Ann) @@ ("b" :> Bo),
     edge |-> {Edge("a", "b", 0, Dict(NoLeaves)),
               Edge("b", "a", 0, Dict(Leaf(<<"class">>, "LIKES")))}]

InitGraphs ==
    {EmptyGraph} \cup {KnowsGraph(o) : o \in {<<"a", "b">>, <<"b", "a">>}}
                 \cup {PlainGraph(o) : o \in {<<"a", "b">>, <<"b", "a">>}}

NoAttributes == Dict(NoLeaves)
Person(designation, edges) == Node(designation, "Person", NoAttributes, edges)

MatchQueries == <<
    \* MATCH (x:Person)-[:KNOWS]->(y:Person) WHERE x.name = "Ann" RETURN y.name
    MatchWhereReturnQuery(
        <<Person("x", <<EdgeExists("x", "y", "KNOWS")>>), Person("y", <<>>)>>,
        WhereClause(Constraint(<<"x", "name">>, "Ann")),
        <<ReturnPath(<<"y", "name">>)>>),
    \* MATCH (x:Person)-->(y:Person) RETURN x, y.name
    MatchWhereReturnQuery(
        <<Person("x", <<EdgeExists("x", "y", None)>>), Person("y", <<>>)>>,
        NoneAst, <<ReturnStr("x"), ReturnPath(<<"y", "name">>)>>),
    \* MATCH (x:Person) RETURN x.age
    MatchWhereReturnQuery(<<Person("x", <<>>)>>, NoneAst,
                          <<ReturnPath(<<"x", "age">>)>>),
    \* MATCH (x:Person) RETURN x.name.first
    MatchWhereReturnQuery(<<Person("x", <<>>)>>, NoneAst,
                          <<ReturnPath(<<"x", "name", "first">>)>>),
    \* MATCH (x:Person) RETURN x.name
    MatchWhereReturnQuery(<<Person("x", <<>>)>>, NoneAst,
                          <<ReturnPath(<<"x", "name">>)>>),
    \* MATCH (x:Person) RETURN z
    MatchWhereReturnQuery(<<Person("x", <<>>)>>, NoneAst, <<ReturnStr("z")>>),
    \* MATCH (x:Robot) RETURN z
    MatchWhereReturnQuery(<<Node("x", "Robot", NoAttributes, <<>>)>>, NoneAst,
                          <<ReturnStr("z")>>),
    \* MATCH (x {name: "Ann"}) RETURN x
    MatchWhereReturnQuery(
        <<Node("x", None, Dict(Leaf(<<"name">>, "Ann")), <<>>)>>,
        NoneAst, <<ReturnStr("x")>>),
    \* MATCH (x:Person), (:Person), (:Person) RETURN x
    MatchWhereReturnQuery(
        <<Person("x", <<>>), Person(None, <<>>), Person(None, <<>>)>>,
        NoneAst, <<ReturnStr("x")>>),
    \* MATCH (n:Person)-[:KNOWS]->(m:Person) RETURN n, m
    MatchWhereReturnQuery(
        <<Person("n", <<EdgeExists("n", "m", "KNOWS")>>), Person("m", <<>>)>>,
        NoneAst, <<ReturnStr("n"), ReturnStr("m")>>),
    \* MATCH (x) WHERE z.name = "Ann" RETURN x
    MatchWhereReturnQuery(<<Node("x", None, NoAttributes, <<>>)>>,
                          WhereClause(Constraint(<<"z", "name">>, "Ann")),
                          <<ReturnStr("x")>>),
    \* MATCH (x) WHERE x.age = "Ann" OR x.name = "Bo" RETURN x
    MatchWhereReturnQuery(<<Node("x", None, NoAttributes, <<>>)>>,
                          WhereClause(Or(Constraint(<<"x", "age">>, "Ann"),
                                         Constraint(<<"x", "name">>, "Bo"))),
                          <<ReturnStr("x")>>),
    \* MATCH (x) WHERE x.name = "Ann" OR NOT x.name.first = "Ann" RETURN x
    MatchWhereReturnQuery(
        <<Node("x", None, NoAttributes, <<>>)>>,
        WhereClause(Or(Constraint(<<"x", "name">>, "Ann"),
                       Not(Constraint(<<"x", "name", "first">>, "Ann")))),
        <<ReturnStr("x")>>) >>

\* MATCH (x) WHERE <clause> RETURN x, for equality constraints on these
\* key-paths and literals, and their negations
WhereKeypaths ==
    {<<"x", "name">>, <<"x", "age">>, <<"x", "name", "first">>,
     <<"x", "age", "n">>, <<"x", "bar">>, <<"x", "bar", "qux">>,
     <<"x", "bar", "zip">>, <<"x", "bar", "qux", "k">>}
WhereLiterals == {"Ann", "baz"}
WhereConstraints ==
    {Constraint(keypath, value) : keypath \in WhereKeypaths, value \in WhereLiterals}
WhereQuery(form, constraint) ==
    MatchWhereReturnQuery(
        <<Node("x", None, NoAttributes, <<>>)>>,
        WhereClause(
            IF form = "Not" THEN Not(constraint) ELSE constraint),
        <<ReturnStr("x")>>)

CreateQueries == <<
    \* CREATE (n:Person {name:"Ann"})-[:KNOWS]->(m:Person {name:"Bo"}) RETURN n
    CreateReturnQuery(
        <<Node("n", "Person", Dict(Leaf(<<"name">>, "Ann")),
               <<EdgeExists("n", "m", "KNOWS")>>),
          Node("m", "Person", Dict(Leaf(<<"name">>, "Bo")), <<>>)>>,
        <<ReturnStr("n")>>),
    \* CREATE (n:SOMECLASS {foo: "bar", bar: {qux: "thing"}})-->(m:ANOTHERCLASS)
    \* RETURN n
    CreateReturnQuery(
        <<Node("n", "SOMECLASS",
               Dict(Leaf(<<"foo">>, "bar") @@ Leaf(<<"bar", "qux">>, "thing")),
               <<EdgeExists("n", "m", None)>>),
          Node("m", "ANOTHERCLASS", NoAttributes, <<>>)>>,
        <<ReturnStr("n")>>),
    \* CREATE (n:Person)-[:KNOWS]->(:Person), (:Person) RETURN n
    CreateReturnQuery(
        <<Person("n", <<EdgeExists("n", None, "KNOWS")>>),
          Person(None, <<>>), Person(None, <<>>)>>,
        <<ReturnStr("n")>>),
    \* CREATE (n:Person {name: "Cy"}) RETURN n
    CreateReturnQuery(
        <<Node("n", "Person", Dict(Leaf(<<"name">>, "Cy")), <<>>)>>,
        <<ReturnStr("n")>>) >>

----------------------------------------------------------------------------
(* The program *)

NoAssignment == [name \in {} |-> None]

Init ==
    /\ graph_object \in InitGraphs
    /\ node_has_counter \in BOOLEAN
    /\ pc = "idle"
    /\ query_ast = NoneAst
    /\ parsed_query = NoneAst
    /\ atomic_facts = <<>>
    /\ all_designations = <<>>
    /\ domain = <<>>
    /\ candidate = 0
    /\ var_to_element = NoAssignment
    /\ sentinal = FALSE
    /\ rows = <<>>
    /\ raised = None
    /\ designation_to_node = NoAssignment
    /\ calls = <<>>
    /\ creates = 0
    /\ next_uid = 0

\* the pattern nodes of the query object after extract_atomic_facts ran on it
Mutated(query, ex) ==
    WithLiterals(query,
        ex.literal_list \o SubSeq(literal_list_of(query),
                                  Len(ex.literal_list) + 1,
                                  Len(literal_list_of(query))))

\* query() on a MatchWhereReturnQuery: matching_nodes up to its loop
StartMatch(query) ==
    LET ex == extract_atomic_facts(query, node_has_counter) IN
    /\ pc = "idle"
    /\ query_ast' = query
    /\ parsed_query' = Mutated(query, ex)
    /\ raised' = ex.raised
    /\ pc' = IF ex.raised # None THEN "raised" ELSE "matching"
    /\ atomic_facts' = ex.atomic_facts
    /\ all_designations' = SortedDesignations(ex.atomic_facts)
    /\ domain' = _get_domain(graph_object)
    /\ candidate' = 0
    /\ var_to_element' = NoAssignment
    /\ sentinal' = FALSE
    /\ rows' = <<>>
    /\ designation_to_node' = NoAssignment
    /\ calls' = <<>>
    /\ UNCHANGED <<graph_object, node_has_counter, creates, next_uid>>

QueryMatch == \E i \in DOMAIN MatchQueries : StartMatch(MatchQueries[i])

QueryMatchWhere ==
    \E form \in {"Constraint", "Not"}, constraint \in WhereConstraints :
        StartMatch(WhereQuery(form, constraint))

Assignments == Pow(Len(domain), Len(all_designations))

\* one pass of the loop of line 103: the next domain assignment
MatchingNodesStep ==
    /\ pc = "matching"
    /\ candidate < Assignments
    /\ LET v2e == Assignment(all_designations, domain, candidate)
           checked == CheckFacts(graph_object, v2e,
                                 [sentinal |-> TRUE, raised |-> None],
                                 atomic_facts)
           projected ==
               ReturnLoop(graph_object, v2e,
                          [return_list |-> <<>>, raised |-> None,
                           variable_list |->
                               parsed_query.return_variables.variable_list],
                          1)
           yields == checked.raised = None /\ checked.sentinal
       IN  /\ var_to_element' = v2e
           /\ sentinal' = (yields)
           /\ candidate' = candidate + 1
           /\ raised' = IF checked.raised # None THEN checked.raised
                        ELSE IF yields THEN projected.raised ELSE None
           /\ pc' = IF raised' # None THEN "raised" ELSE "matching"
           /\ parsed_query' =
                  IF yields
                  THEN [parsed_query EXCEPT !.return_variables.variable_list =
                                                projected.variable_list]
                  ELSE parsed_query
           /\ rows' = IF yields /\ projected.raised = None
                      THEN Append(rows, projected.return_list) ELSE rows
    /\ UNCHANGED <<graph_object, node_has_counter, query_ast, atomic_facts,
                   all_designations, domain, designation_to_node, calls,
                   creates, next_uid>>

\* itertools.product is exhausted: the generator returns
MatchingNodesReturn ==
    /\ pc = "matching"
    /\ candidate = Assignments
    /\ pc' = "done"
    /\ UNCHANGED <<graph_object, node_has_counter, query_ast, parsed_query,
                   atomic_facts, all_designations, domain, candidate,
                   var_to_element, sentinal, rows, raised, designation_to_node,
                   calls, creates, next_uid>>

\* query() on a CreateReturnQuery: create_query up to its first loop
QueryCreate ==
    \E i \in DOMAIN CreateQueries :
       LET query == CreateQueries[i]
           ex == extract_atomic_facts(query, node_has_counter)
       IN  /\ pc = "idle"
           /\ creates < MaxCreates
           /\ Len(graph_object.nodes) + Len(literal_list_of(query)) <= MaxNodes
           /\ creates' = creates + 1
           /\ query_ast' = query
           /\ parsed_query' = Mutated(query, ex)
           /\ raised' = ex.raised
           /\ pc' = IF ex.raised # None THEN "raised" ELSE "creating"
           /\ atomic_facts' = ex.atomic_facts
           /\ all_designations' = <<>>
           /\ domain' = <<>>
           /\ candidate' = 0
           /\ var_to_element' = NoAssignment
           /\ sentinal' = FALSE
           /\ rows' = <<>>
           /\ designation_to_node' = NoAssignment
           /\ calls' = <<>>
           /\ UNCHANGED <<graph_object, node_has_counter, next_uid>>

NodeCalls == SelectSeq(calls, LAMBDA c : c.op = "_create_node")
EdgeCalls == SelectSeq(calls, LAMBDA c : c.op = "_create_edge")
EdgeFacts == SelectSeq(atomic_facts, LAMBDA fact : fact.type = "EdgeExists")

\* _create_node: graph_object.add_node(new_id, **attribute_conditions)
AddNode(obj, new_id, attributes, position) ==
    [obj EXCEPT !.nodes = SubSeq(@, 1, position) \o <<new_id>>
                          \o SubSeq(@, position + 1, Len(@)),
                !.node = (new_id :> attributes) @@ @]

\* _create_edge: graph_object.add_edge(source, target, edge_label=, _id=)
AddEdge(obj, source_node, target_node, edge_label, new_edge_id) ==
    [obj EXCEPT !.edge = @ \cup
        {Edge(source_node, target_node,
              Cardinality(_edges_connecting_nodes(obj, source_node, target_node)),
              Dict(Leaf(<<"edge_label">>, edge_label)
                   @@ Leaf(<<"_id">>, new_edge_id)))}]

\* one pass of the loop of lines 56-59
CreateNode ==
    /\ pc = "creating"
    /\ Len(NodeCalls) < Len(literal_list_of(parsed_query))
    /\ LET literal == literal_list_of(parsed_query)[Len(NodeCalls) + 1]
           new_id == unique_id(next_uid + 1)
           attributes == SetItem(literal.attribute_conditions, "class",
                                 literal.node_class)
       IN  /\ \E position \in 0..Len(graph_object.nodes) :
                 graph_object' = AddNode(graph_object, new_id, attributes, position)
           /\ designation_to_node' =
                  (literal.designation :> new_id) @@ designation_to_node
           /\ calls' = Append(calls, [op |-> "_create_node", id |-> new_id,
                                      source |-> None, target |-> None,
                                      edge_label |-> None])
    /\ next_uid' = next_uid + 1
    /\ UNCHANGED <<node_has_counter, pc, query_ast, parsed_query, atomic_facts,
                   all_designations, domain, candidate, var_to_element,
                   sentinal, rows, raised, creates>>

\* one pass of the loop of lines 60-68
CreateEdge ==
    /\ pc = "creating"
    /\ Len(NodeCalls) = Len(literal_list_of(parsed_query))
    /\ Len(EdgeCalls) < Len(EdgeFacts)
    /\ LET edge_fact == EdgeFacts[Len(EdgeCalls) + 1]
           found == /\ edge_fact.node_1 \in DOMAIN designation_to_node
                    /\ edge_fact.node_2 \in DOMAIN designation_to_node
           source_node == designation_to_node[edge_fact.node_1]
           target_node == designation_to_node[edge_fact.node_2]
           new_edge_id == unique_id(next_uid + 1)
       IN  IF found
           THEN /\ graph_object' = AddEdge(graph_object, source_node, target_node,
                                           edge_fact.edge_label, new_edge_id)
                /\ calls' = Append(calls,
                                   [op |-> "_create_edge", id |-> new_edge_id,
                                    source |-> source_node,
                                    target |-> target_node,
                                    edge_label |-> edge_fact.edge_label])
                /\ next_uid' = next_uid + 1
                /\ UNCHANGED <<pc, raised>>
           ELSE /\ pc' = "raised"
                /\ raised' = "KeyError"
                /\ UNCHANGED <<graph_object, calls, next_uid>>
    /\ UNCHANGED <<node_has_counter, query_ast, parsed_query, atomic_facts,
                   all_designations, domain, candidate, var_to_element,
                   sentinal, rows, designation_to_node, creates>>

\* create_query returns (None); query() has yielded nothing
CreateReturn ==
    /\ pc = "creating"
    /\ Len(NodeCalls) = Len(literal_list_of(parsed_query))
    /\ Len(EdgeCalls) = Len(EdgeFacts)
    /\ pc' = "done"
    /\ UNCHANGED <<graph_object, node_has_counter, query_ast, parsed_query,
                   atomic_facts, all_designations, domain, candidate,
                   var_to_element, sentinal, rows, raised, designation_to_node,
                   calls, creates, next_uid>>

\* the caller's loop over query() ends, by StopIteration or by the exception;
\* the locals of the execution are gone
QueryEnd ==
    /\ pc \in {"done", "raised"}
    /\ pc' = "idle"
    /\ query_ast' = NoneAst
    /\ parsed_query' = NoneAst
    /\ atomic_facts' = <<>>
    /\ all_designations' = <<>>
    /\ domain' = <<>>
    /\ candidate' = 0
    /\ var_to_element' = NoAssignment
    /\ sentinal' = FALSE
    /\ rows' = <<>>
    /\ raised' = None
    /\ designation_to_node' = NoAssignment
    /\ calls' = <<>>
    /\ UNCHANGED <<graph_object, node_has_counter, creates, next_uid>>

Next ==
    \/ QueryMatch
    \/ QueryMatchWhere
    \/ MatchingNodesStep
    \/ MatchingNodesReturn
    \/ QueryCreate
    \/ CreateNode
    \/ CreateEdge
    \/ CreateReturn
    \/ QueryEnd

Spec == Init /\ [][Next]_vars

----------------------------------------------------------------------------
(* Properties *)

Matching == query_ast.type = "MatchWhereReturnQuery"
Creating == query_ast.type = "CreateReturnQuery"
\* matching_nodes has evaluated the assignment var_to_element
Evaluated == Matching /\ candidate > 0
\* the assignment evaluated last satisfied every fact: its row is due
Yielding == Evaluated /\ sentinal

\* the key-path leads to a value of the dict: a leaf or a nested dict
Resolves(value, keypath) ==
    \/ keypath = <<>>
    \/ \E p \in DOMAIN value.d :
          Len(keypath) <= Len(p) /\ SubSeq(p, 1, Len(keypath)) = keypath

Bound(name) == name \in DOMAIN var_to_element
BoundNode(name) == _get_node(graph_object, var_to_element[name])

FactsOfType(type) == {atomic_facts[i] : i \in
                         {j \in DOMAIN atomic_facts : atomic_facts[j].type = type}}

RECURSIVE LeafConstraints(_)
LeafConstraints(clause) ==
    IF clause.type = "Or"
    THEN LeafConstraints(clause.left_disjunct)
         \cup LeafConstraints(clause.right_disjunct)
    ELSE IF clause.type = "Not" THEN LeafConstraints(clause.argument)
    ELSE {clause}

\* an equality constraint on a bound designation whose key-path (one key or
\* more) does not resolve on the bound node
MissingConstraint(constraint) ==
    /\ Len(constraint.keypath) >= 2
    /\ Bound(Head(constraint.keypath))
    /\ ~Resolves(BoundNode(Head(constraint.keypath)), Tail(constraint.keypath))

\* the verdict of the facts other than WHERE clauses on var_to_element
OtherFacts ==
    CheckFacts(graph_object, var_to_element, [sentinal |-> TRUE, raised |-> None],
               SelectSeq(atomic_facts, LAMBDA fact : fact.type # "WhereClause"))

\* C1: an EdgeExists fact without a label is satisfied as soon as an edge
\* joins the two bound nodes, whatever its class; one with a label, only when
\* such an edge has exactly that class.
C1_EdgeLabelMatching ==
    Evaluated =>
        \A fact \in FactsOfType("EdgeExists") :
           Bound(fact.node_1) /\ Bound(fact.node_2) =>
              LET between == _edges_connecting_nodes(graph_object,
                                 var_to_element[fact.node_1],
                                 var_to_element[fact.node_2])
              IN  EdgeExistsHolds(graph_object, var_to_element, fact) =
                     IF fact.edge_label = None THEN between # {}
                     ELSE \E e \in between :
                             _edge_class(e.data) = Str(fact.edge_label)

ReturnItems == query_ast.return_variables.variable_list

\* C2: when a key-path of a RETURN item does not resolve on the bound node,
\* producing the row of a satisfying assignment raises the data error; no
\* row with None for that item is yielded.
C2_ReturnMissingAttributeRaises ==
    Yielding =>
        \A i \in DOMAIN ReturnItems :
           LET item == ReturnItems[i] IN
           (/\ ~item.is_str
            /\ Len(item.path) >= 2
            /\ Bound(Head(item.path))
            /\ ~Resolves(BoundNode(Head(item.path)), Tail(item.path)))
              => raised = "Exception"

\* C3: a WHERE equality constraint whose key-path names a missing key, or
\* passes through a value that cannot be indexed, evaluates to false without
\* raising, whatever literal it compares against, and its negation to true;
\* when it is the whole WHERE clause the assignment is rejected (or, negated,
\* accepted when the other facts allow) and the filter raises nothing.
C3_NullSafeFilter ==
    Evaluated =>
        \A where \in FactsOfType("WhereClause") :
           \A constraint \in LeafConstraints(where.constraint) :
              MissingConstraint(constraint) =>
                 /\ _eval_constraint(graph_object, var_to_element, constraint)
                        = "False"
                 /\ _eval_boolean(graph_object, var_to_element, Not(constraint))
                        = "True"
                 /\ OtherFacts.raised = None =>
                        /\ where.constraint = constraint =>
                               ~sentinal /\ raised = None
                        /\ where.constraint = Not(constraint) =>
                               /\ sentinal = OtherFacts.sentinal
                               /\ raised # None => sentinal

\* a negated constraint through the str value of name admitted the assignment,
\* and one on a missing key rejected another
C3_Witness ==
    /\ Evaluated
    /\ pc = "matching"
    /\ \E where \in FactsOfType("WhereClause") :
          /\ where.constraint.type = "Not"
          /\ where.constraint.argument.keypath = <<"x", "name", "first">>
          /\ MissingConstraint(where.constraint.argument)
    /\ sentinal
    /\ Len(rows) > 0

PatternNodes == literal_list_of(query_ast)
\* the pattern edges, in the order of their source pattern nodes
RECURSIVE PatternEdges(_)
PatternEdges(i) ==
    IF i > Len(PatternNodes) THEN <<>>
    ELSE [k \in DOMAIN PatternNodes[i].connecting_edges |->
             [owner |-> i, fact |-> PatternNodes[i].connecting_edges[k]]]
         \o PatternEdges(i + 1)

\* C4: a CREATE query with N pattern nodes and M pattern edges makes exactly
\* N _create_node and M _create_edge calls, every node before the first edge,
\* each edge between the nodes created for its own source and target pattern
\* nodes, anonymous ones included.
C4_CreateCalls ==
    Creating /\ pc \in {"done", "raised"} =>
        /\ Len(NodeCalls) = Len(PatternNodes)
        /\ Len(EdgeCalls) = Len(PatternEdges(1))
        /\ \A i, j \in DOMAIN calls :
              i < j /\ calls[i].op = "_create_edge" => calls[j].op = "_create_edge"
        /\ \A k \in DOMAIN EdgeCalls :
              /\ EdgeCalls[k].source = NodeCalls[PatternEdges(1)[k].owner].id
              /\ \E t \in DOMAIN PatternNodes :
                    /\ PatternNodes[t].designation = PatternEdges(1)[k].fact.node_2
                    /\ EdgeCalls[k].target = NodeCalls[t].id

\* C5: a CREATE ... RETURN query hands back exactly one row, the projection of
\* the created entities its RETURN clause names (for RETURN n: the identifier
\* of the node created for n).
C5_CreateReturnsRow ==
    Creating /\ pc = "done" =>
        /\ Len(rows) = 1
        /\ Len(rows[1]) = Len(ReturnItems)
        /\ \A i \in DOMAIN ReturnItems :
              ReturnItems[i].is_str =>
                 rows[1][i] = Str(designation_to_node[ReturnItems[i].path[1]])

\* the designations of the pattern nodes and edge facts of the query
PatternDesignations ==
    {all_designations[i] : i \in DOMAIN all_designations}
    \cup UNION {{fact.node_1, fact.node_2} : fact \in FactsOfType("EdgeExists")}

\* C6: a MATCH query whose RETURN list names a designation of no pattern node
\* and no edge fact never finishes normally, whatever the graph holds.
C6_UnresolvedDesignationRaises ==
    (/\ Matching
     /\ \E i \in DOMAIN ReturnItems :
           Head(ReturnItems[i].path) \notin PatternDesignations)
       => pc # "done"

\* the value a RETURN item stands for under the assignment evaluated last
Projected(item) ==
    IF item.is_str THEN Str(var_to_element[item.path[1]])
    ELSE _node_attribute_value(BoundNode(Head(item.path)), Tail(item.path)).value

\* C7: every row has one value per item of the RETURN list, in its order (the
\* node identifier for a bare designation, the resolved key-path otherwise),
\* and the list used for a later row is the one used for the first.
C7_RowsProjectEveryItem ==
    Matching =>
        /\ parsed_query.return_variables = query_ast.return_variables
        /\ \A r \in DOMAIN rows : Len(rows[r]) = Len(ReturnItems)
        /\ (Yielding /\ \A i \in DOMAIN ReturnItems : Bound(Head(ReturnItems[i].path)))
              => \/ raised = "Exception"
                 \/ /\ raised = None
                    /\ rows # <<>>
                    /\ \A i \in DOMAIN ReturnItems :
                          rows[Len(rows)][i] = Projected(ReturnItems[i])

Anonymous == SelectSeq(PatternNodes, LAMBDA n : n.designation = None)
\* the pattern nodes that came without a designation, as extraction left them
Named ==
    LET at == {i \in DOMAIN PatternNodes : PatternNodes[i].designation = None}
    IN  [k \in 1..Cardinality(at) |->
            literal_list_of(parsed_query)[
                CHOOSE i \in at : Cardinality({j \in at : j <= i}) = k]]

\* C8: extraction of a pattern with k >= 2 nodes without a designation
\* completes without error and names them _v0, ..., _v(k-1) in discovery order.
C8_AnonymousNames ==
    (pc # "idle" /\ Len(Anonymous) >= 2) =>
        /\ raised # "AttributeError"
        /\ \A k \in DOMAIN Named :
              Named[k].designation = "_v" \o ToString(k - 1)

\* C9: no row comes from an assignment that binds a designation to a node
\* whose attributes differ from the inline conditions of its pattern node.
C9_InlineDocumentChecked ==
    (Yielding /\ raised = None) =>
        \A fact \in FactsOfType("NodeHasDocument") :
           (fact.document # NoneV /\ Bound(fact.designation)) =>
              \A p \in DOMAIN fact.document.d :
                 _attribute_value_from_node_keypath(BoundNode(fact.designation), p)
                     = ToValue(fact.document.d[p])

\* C10: the class _edge_class reads from an edge create_query stored for a
\* pattern edge with label L is L, and a MATCH edge fact with the label an
\* edge between the bound nodes was created with is satisfied.
C10_CreatedEdgeLabelRoundTrip ==
    /\ Creating =>
          \A k \in DOMAIN EdgeCalls :
             \A e \in graph_object.edge :
                (HasKey(e.data, "_id") /\ GetItem(e.data, "_id") = Str(EdgeCalls[k].id))
                   => _edge_class(e.data) = ToValue(EdgeCalls[k].edge_label)
    /\ Evaluated =>
          \A fact \in FactsOfType("EdgeExists") :
             (/\ Bound(fact.node_1) /\ Bound(fact.node_2)
              /\ \E e \in _edges_connecting_nodes(graph_object,
                              var_to_element[fact.node_1],
                              var_to_element[fact.node_2]) :
                    /\ HasKey(e.data, "edge_label")
                    /\ GetItem(e.data, "edge_label") = ToValue(fact.edge_label))
                => EdgeExistsHolds(graph_object, var_to_element, fact)

====
